---- MODULE Spec2Model ----
(***************************************************************************)
(* The TrueNAS exporter in four parts.                                     *)
(*                                                                         *)
(* Spec: the persistent WebSocket connection                               *)
(* (src/src/truenas/connection.rs): the connection slot behind its mutex,  *)
(* the request-id counter, the handshake/authentication exchange and       *)
(* execute_query(), run by concurrent callers against a remote that may    *)
(* answer anything, fail or close. SpecFair is Spec with every call in     *)
(* progress taking its next step eventually.                               *)
(*                                                                         *)
(* SpecLoop: the collection loop and the health endpoint                   *)
(* (src/src/server.rs): one cycle of queries after the other, the          *)
(* truenas_up gauge, GET /health.                                          *)
(*                                                                         *)
(* SpecReporting: the reporting collection (src/src/server.rs, and its     *)
(* other text src/src/collectors/system_reporting.rs): the batch list      *)
(* built from the discovered descriptors and the decoding of the samples,  *)
(* after the system information block that sets the total memory.          *)
(*                                                                         *)
(* SpecCollectors: the cloud sync, snapshot task and alert collections     *)
(* (src/src/server.rs, and their other text under src/src/collectors/),    *)
(* cycle after cycle, and the gauges they write.                           *)
(*                                                                         *)
(* Option<T> is a set with at most one element: None is {}, Some(x) is {x}.*)
(* Strings that the code inspects (error reasons, request ids) are         *)
(* sequences, so that `contains` and `to_string` are computed.             *)
(***************************************************************************)
EXTENDS Integers, Sequences, FiniteSets, TLC

VARIABLES
    connection,   \* the slot: Option<ActiveConnection> (connection.rs:23)
    lockHolder,   \* the caller holding the slot's mutex, or NoProc (:23)
    request_id,   \* the AtomicU64 counter (:24)
    opened,       \* physical connections opened so far, their numbering (:63)
    wire,         \* outbound frames in the order sent (:117, :148, :214)
    inbound,      \* inbound frames read, per connection (:123, :154, :220)
    pc,           \* each caller's position in execute_query or close
    conn,         \* each caller's checked-out connection, local `conn` (:199)
    msg,          \* each caller's last inbound frame, local `msg` (:155, :224)
    io,           \* the I/O outcome of each caller's latest step
    result,       \* what each caller's latest execute_query returned
    calls,        \* execute_query() calls issued so far
    closes,       \* close() calls issued so far
    attempts      \* what each caller's current execute_query has done so far:
                  \* connections opened (:63), connect frames (:117), auth
                  \* requests (:148) and method requests (:214) sent, request
                  \* ids drawn (:140, :205)

vars == <<connection, lockHolder, request_id, opened, wire, inbound,
          pc, conn, msg, io, result, calls, closes, attempts>>

\* The collection loop and the health endpoint (src/src/server.rs)
VARIABLES
    config,       \* MetricsConfig: the two collect_* flags (config.rs:36, :38)
    position,     \* where collect_metrics_loop stands: 0 at ticker.tick()
                  \* (server.rs:122), k at the k-th query of Queries,
                  \* Len(Queries) + 1 at the any_success check (:677)
    any_success,  \* the local `any_success` of collect_metrics (:136)
    up,           \* the truenas_up gauge (metrics.rs:96)
    attempted,    \* the queries issued so far in this cycle, in order
    succeeded,    \* the queries of this cycle that returned Ok
    cycles,       \* collect_metrics() calls that have returned
    completed,    \* the latest collect_metrics() that returned: whether it
                  \* returned Ok and whether any of its queries succeeded
    outstanding,  \* the client queries collect_metrics has called and that
                  \* have not returned yet
    health        \* GET /health: "none" before any request, "pending" while
                  \* one is being served, else the status returned (:709)

cycleVars == <<config, position, any_success, up, attempted, succeeded,
               cycles, completed, outstanding, health>>

\* The reporting collection: discovery, the batch query and the decoding of
\* its results (src/src/server.rs:384-556, the text that is built in, and
\* src/src/collectors/system_reporting.rs:64-268)
VARIABLES
    build,        \* which of the two texts runs: "server" or "collector"
    stage,        \* where the cycle stands: "info" at the system
                  \* information block (:339), "graphs" awaiting
                  \* query_reporting_graphs, "build", "data" awaiting
                  \* query_reporting_data, "decode", "done"; "off" when idle
    graphs,       \* the discovered descriptors, local `graphs` (:385)
    queries,      \* the batch list, local `queries` (:386)
    requested,    \* query_reporting_data calls issued (:434)
    results,      \* the samples of the batch reply that `for res in
                  \* results` has taken so far (:435, :437)
    emitted,      \* the gauge settings made, in order (:445-541)
    status,       \* the CollectionStatus it ended with, "none" before that
    system_memory_total_bytes,
                  \* the gauge of that name (metrics.rs:94)
    system_info   \* what this cycle's system information block did: not
                  \* reached yet, skipped, or the outcome of
                  \* query_system_info with the physmem it carried

reportVars == <<build, stage, graphs, queries, requested, results, emitted,
                status, system_memory_total_bytes, system_info>>

\* The data protection and alert collections, cycle after cycle
\* (src/src/server.rs:280-336, the text that is built in, and
\* src/src/collectors/cloud_sync.rs, snapshot.rs, alert.rs, mod.rs). A
\* GaugeVec is the function from the label values of its children to their
\* values.
VARIABLES
    cloud_sync_status,     \* GaugeVec, labels description, state (metrics.rs:63)
    cloud_sync_progress,   \* GaugeVec, label description (:64)
    snapshot_task_status,  \* GaugeVec, labels dataset, state (:65)
    alert_count,           \* GaugeVec, labels level, active (:66)
    alert_info,            \* GaugeVec, labels level, message, uuid, active (:67)
    turn,                  \* the collection that comes next in the cycle
    rounds,                \* cycles in which the three have run
    reply,                 \* the client query that returned last: which,
                           \* Ok or Err, and the items of an Ok
    collected              \* what the collector that ran last returned, and
                           \* how often its Ok arm or callback ran

gaugeVars == <<cloud_sync_status, cloud_sync_progress, snapshot_task_status,
               alert_count, alert_info, turn, rounds, reply, collected>>

----------------------------------------------------------------------------
(* Bounds of the model *)

MaxCalls == 2

MaxConns == 2

MaxCloses == 1

MaxCycles == 2

MaxGraphs == 2

MaxSamples == 2

\* cycles of the data protection and alert collections
MaxRounds == 2

\* tasks in one reply of query_cloud_sync_tasks or query_snapshot_tasks
MaxTasks == 1

\* alerts in one reply of query_alerts
MaxAlerts == 2

Procs == {1, 2}

NoProc == 0

----------------------------------------------------------------------------
(* Option<T> *)

None == {}

Some(x) == {x}

Unwrap(o) == CHOOSE x \in o : TRUE

----------------------------------------------------------------------------
(* Strings *)

\* u64::to_string: the decimal digits, most significant first
RECURSIVE to_string(_)
to_string(n) == IF n < 10 THEN <<n>> ELSE to_string(n \div 10) \o <<n % 10>>

\* str::contains: needle occurs as a contiguous run of haystack
ReasonEquals(haystack, needle) == haystack = needle

ReasonContains(haystack, needle) ==
    \E i \in 1..(Len(haystack) - Len(needle) + 1) :
        SubSeq(haystack, i, i + Len(needle) - 1) = needle

\* the session-expiry sentinel, in two pieces so that order and adjacency matter
Sentinel == <<"ENOT", "AUTHENTICATED">>

UnknownError == <<"Unknown error">>

Reasons ==
    { <<"EINVAL">>,
      <<"[", "ENOT", "AUTHENTICATED", "]">>,
      <<"AUTHENTICATED", "ENOT">> }

----------------------------------------------------------------------------
(* Inbound frames *)

\* JsonRpcError: only `reason` is read
Errors == [reason : {None} \cup {Some(r) : r \in Reasons}]

\* serde_json::Value results; a JSON null result deserializes to None
Values == {"true", "false", "rows", "junk"}

NoBody == [error |-> None, result |-> None]

\* Message::Text carrying a JsonRpcResponse
Responses ==
    [error : {None}, result : {None} \cup {Some(v) : v \in Values}]
    \cup [error : {Some(e) : e \in Errors}, result : {None, Some("rows")}]

\* JsonRpcResponse::id: the id of the first request of the first connection
\* (its authentication), which no later request carries
StaleId == to_string(0)

\* a decodable result under the id of the first method request
Echo ==
    [type |-> "text", valid |-> TRUE, id |-> to_string(1),
     body |-> [error |-> None, result |-> Some("rows")]]

Frames ==
    { [type |-> "binary", valid |-> FALSE, id |-> <<>>, body |-> NoBody],
      [type |-> "text", valid |-> FALSE, id |-> <<>>, body |-> NoBody],
      Echo }
    \cup { [type |-> "text", valid |-> TRUE, id |-> StaleId, body |-> b] :
                b \in Responses }

NoFrame == [type |-> "none", valid |-> FALSE, id |-> <<>>, body |-> NoBody]

\* stream.next().await: Some(Ok(msg)), Some(Err(e)) or None; a stream that
\* has ended yields None from then on
ReadOutcomes(c) ==
    IF c.ended THEN { [io |-> "read_eos", frame |-> NoFrame] }
    ELSE { [io |-> "read_err", frame |-> NoFrame],
           [io |-> "read_eos", frame |-> NoFrame] }
         \cup { [io |-> "read_ok", frame |-> f] : f \in Frames }

\* stream.send().await: Ok or Err; a stream that has ended refuses to send
WriteOutcomes(c) ==
    IF c.ended THEN {"write_err"} ELSE {"write_ok", "write_err"}

----------------------------------------------------------------------------
(* Results of a call *)

Pending == [kind |-> "Pending", text |-> <<>>]

Ok == [kind |-> "Ok", text |-> <<>>]

Err(kind, text) == [kind |-> kind, text |-> text]

ConnectionClosed == Err("TrueNasApi", <<"Connection closed by server">>)

NoValidResponse == Err("TrueNasApi", <<"No valid JSON-RPC response received">>)

NoActiveConnection == Err("Config", <<"No active connection">>)

----------------------------------------------------------------------------
(* ConnectionManager: pure pieces of its code *)

\* ActiveConnection { stream, authenticated: false } on a newly opened stream
NewConnection(cid) == [cid |-> cid, authenticated |-> FALSE, ended |-> FALSE]

\* self.connection.lock().await can complete
LockAlwaysFree == TRUE

LockFree == lockHolder = NoProc

\* request_id.fetch_add(1, SeqCst).to_string(): the id and the new counter
next_id_stuck(counter) == [id |-> to_string(counter), counter |-> counter]

next_id(counter) == [id |-> to_string(counter), counter |-> counter + 1]

\* ensure_connected: `if !conn.authenticated`
AlwaysAuthenticate(c) == TRUE

NeedsAuth(c) == ~c.authenticated

\* ensure_connected: `conn.authenticated = true`
LeaveUnauthenticated(c) == c

MarkAuthenticated(c) == [c EXCEPT !.authenticated = TRUE]

\* ensure_connected on a failed authentication: `*conn_guard = None`
KeepConnection(slot) == slot

DropConnection(slot) == None

\* a stream that yielded None has ended
AfterRead(c, r) == IF r.io = "read_eos" THEN [c EXCEPT !.ended = TRUE] ELSE c

\* error.reason.unwrap_or_else(|| "Unknown error")
ErrorMsg(error) ==
    IF error.reason = None THEN UnknownError ELSE Unwrap(error.reason)

\* authenticate_connection: what the read of the auth response leads to
AuthOutcome(r) ==
    IF r.io = "read_eos" THEN Ok
    ELSE IF r.io = "read_err" THEN Err("WebSocket", <<>>)
    ELSE IF r.frame.type # "text" THEN Ok
    ELSE IF ~r.frame.valid THEN Err("Json", <<>>)
    ELSE IF r.frame.body.error # None
        THEN Err("Auth", <<"Authentication failed: ">>
                         \o ErrorMsg(Unwrap(r.frame.body.error)))
    ELSE IF r.frame.body.result = Some("true") THEN Ok
    ELSE IF r.frame.body.result = Some("false")
        THEN Err("Auth", <<"Authentication failed: API key rejected by TrueNAS">>)
    ELSE Ok

\* execute_query: the slot after the read of the response
CheckInAlways(r, c) == Some(c)

CheckInTextOnly(r, c) ==
    IF r.io = "read_ok" /\ r.frame.type = "text" /\ r.frame.valid
    THEN Some(c) ELSE None

CheckIn(r, c) == IF r.io = "read_ok" THEN Some(c) ELSE None

\* execute_query: `error_msg.contains("ENOTAUTHENTICATED")`
AnyErrorExpires(error_msg) == TRUE

SentinelOnly(error_msg) == ReasonEquals(error_msg, Sentinel)

SessionExpired(error_msg) == ReasonContains(error_msg, Sentinel)

\* serde_json::from_value::<T>(result) succeeds
Decodes(v) == v = "rows"

\* execute_query: the call's result once a frame has been read, and whether
\* the slot is cleared again
Interpret(frame) ==
    IF frame.type # "text" THEN [result |-> NoValidResponse, expired |-> FALSE]
    ELSE IF ~frame.valid THEN [result |-> Err("Json", <<>>), expired |-> FALSE]
    ELSE IF frame.body.error # None THEN
        [result |-> Err("TrueNasApi", ErrorMsg(Unwrap(frame.body.error))),
         expired |-> SessionExpired(ErrorMsg(Unwrap(frame.body.error)))]
    ELSE IF frame.body.result # None THEN
        [result |-> IF Decodes(Unwrap(frame.body.result))
                    THEN Ok ELSE Err("Json", <<>>),
         expired |-> FALSE]
    ELSE [result |-> NoValidResponse, expired |-> FALSE]

QueryOutcomeById(r) ==
    IF r.io = "read_err" THEN [result |-> Err("WebSocket", <<>>), expired |-> FALSE]
    ELSE IF r.io = "read_eos" THEN [result |-> ConnectionClosed, expired |-> FALSE]
    ELSE IF r.frame.id # to_string(request_id - 1)
    THEN [result |-> NoValidResponse, expired |-> FALSE]
    ELSE Interpret(r.frame)

\* execute_query: what the read of the response returns to the caller
QueryOutcome(r) ==
    IF r.io = "read_err" THEN [result |-> Err("WebSocket", <<>>), expired |-> FALSE]
    ELSE IF r.io = "read_eos" THEN [result |-> ConnectionClosed, expired |-> FALSE]
    ELSE Interpret(r.frame)

\* an outbound frame
Frame(c, kind, id) == [conn |-> c.cid, kind |-> kind, id |-> id]

----------------------------------------------------------------------------
(* The collection cycle (server.rs) *)

\* MetricsConfig: the flags collect_metrics reads
Configs == [collect_pool_metrics : BOOLEAN, collect_system_metrics : BOOLEAN]

\* default_true for both flags
DefaultConfig == [collect_pool_metrics |-> TRUE, collect_system_metrics |-> TRUE]

\* the client queries of collect_metrics in the order of its text
Queries ==
    << "query_pools", "query_datasets", "query_smb_shares", "query_nfs_shares",
       "query_cloud_sync_tasks", "query_snapshot_tasks", "query_alerts",
       "query_system_info", "query_reporting_graphs", "query_reporting_data",
       "query_disks", "query_smart_tests", "query_apps",
       "query_network_interfaces", "query_services" >>

\* the any_success check after the last query
AtCheck == Len(Queries) + 1

\* the queries whose Ok arm sets any_success = true
SetsAnySuccess ==
    { "query_pools", "query_system_info", "query_reporting_data",
      "query_disks", "query_smart_tests", "query_apps",
      "query_network_interfaces", "query_services" }

\* whether collect_metrics reaches query q: the two `if config.metrics...`
\* blocks, and query_reporting_data inside the Ok arm of
\* query_reporting_graphs (its query list always holds cpu and memory)
Reaches(q, cfg, ok) ==
    CASE q = "query_pools" -> cfg.collect_pool_metrics
      [] q = "query_system_info" -> cfg.collect_system_metrics
      [] q = "query_reporting_data" -> "query_reporting_graphs" \in ok
      [] OTHER -> TRUE

\* the next query collect_metrics reaches from place k on, or the check
RECURSIVE Upcoming(_, _, _)
Upcoming(k, cfg, ok) ==
    IF k > Len(Queries) THEN AtCheck
    ELSE IF Reaches(Queries[k], cfg, ok) THEN k
    ELSE Upcoming(k + 1, cfg, ok)

AbortOnError(k, outcome, cfg, ok) ==
    IF outcome = "Ok" THEN Upcoming(k + 1, cfg, ok) ELSE AtCheck

\* where collect_metrics goes after the k-th query: both arms of every
\* match fall through to the next statement
Proceed(k, outcome, cfg, ok) == Upcoming(k + 1, cfg, ok)

Detached(k, cfg, ok) == Upcoming(k + 1, cfg, ok)

\* `state.client.query_x().await`: collect_metrics stays at the call until
\* the call has returned
Awaited(k, cfg, ok) == k

health_always_ok(up_value) == "OK"

\* health_handler: the status for the gauge's value
health_handler(up_value) ==
    IF up_value > 0 THEN "OK" ELSE "SERVICE_UNAVAILABLE"

----------------------------------------------------------------------------
(* The reporting collection: the batch list *)

\* ReportingQuery
Query(name, identifier) == [name |-> name, identifier |-> identifier]

\* ReportingGraph: the fields the collection reads
Graph(name, identifiers) == [name |-> name, identifiers |-> identifiers]

\* the names whose identifiers become queries
PerDeviceNames == {"disktemp", "disk", "interface"}

NoFixedQueries(b) == <<>>

\* the queries pushed before the descriptors are looked at: server.rs
\* pushes cpu and memory, system_reporting.rs cpu, cputemp and memory
FixedQueries(b) ==
    IF b = "server"
    THEN << Query("cpu", None), Query("memory", None) >>
    ELSE << Query("cpu", None), Query("cputemp", None),
            Query("memory", None) >>

\* `for id in identifiers`: one query per identifier
RECURSIVE ForIdentifiers(_, _)
ForIdentifiers(name, identifiers) ==
    IF identifiers = <<>> THEN <<>>
    ELSE <<Query(name, Some(Head(identifiers)))>>
            \o ForIdentifiers(name, Tail(identifiers))

\* `for graph in graphs`: the queries of the per-device descriptors that
\* carry identifiers
RECURSIVE ForGraphs(_)
ForGraphs(gs) ==
    IF gs = <<>> THEN <<>>
    ELSE LET graph == Head(gs)
         IN  (IF graph.name \in PerDeviceNames /\ graph.identifiers # None
              THEN ForIdentifiers(graph.name, Unwrap(graph.identifiers))
              ELSE <<>>)
             \o ForGraphs(Tail(gs))

\* the batch list of one collection
BuildQueries(gs, b) == FixedQueries(b) \o ForGraphs(gs)

----------------------------------------------------------------------------
(* The reporting collection: decoding *)

\* ReportingData
Sample(name, identifier, legend, data) ==
    [name |-> name, identifier |-> identifier, legend |-> legend,
     data |-> data]

\* one gauge setting: with_label_values(&[label]).set(value)
Setting(metric, label, value) ==
    [metric |-> metric, label |-> label, value |-> value]

\* last_point.get(i): None past the end of the row, else the cell, itself
\* an Option<f64>; indices count from 1 here
Get(row, i) == IF i \in 1..Len(row) THEN row[i] ELSE None

\* last_point.last()
Last(row) == IF row = <<>> THEN None ELSE row[Len(row)]

\* legend.iter().position(|l| names.contains(l)): the first such place
Position(legend, names) ==
    IF \E i \in 1..Len(legend) : legend[i] \in names
    THEN Some(CHOOSE i \in 1..Len(legend) :
                /\ legend[i] \in names
                /\ \A j \in 1..(i - 1) : legend[j] \notin names)
    ELSE None

\* `if let Some(Some(val)) = cell { gauge.with_label_values(..).set(*val) }`
SetIfSome(metric, label, cell) ==
    IF cell = None THEN <<>> ELSE <<Setting(metric, label, Unwrap(cell))>>

\* identifier.as_deref().unwrap_or("unknown")
Device(res) == IF res.identifier = None THEN "unknown" ELSE Unwrap(res.identifier)

\* `for (i, label) in legend.iter().enumerate()`: each column with a value
\* sets the gauge labelled by its legend entry, from column i on
RECURSIVE SetEachColumn(_, _, _, _)
SetEachColumn(metric, legend, last_point, i) ==
    IF i > Len(legend) THEN <<>>
    ELSE SetIfSome(metric, legend[i], Get(last_point, i))
            \o SetEachColumn(metric, legend, last_point, i + 1)

\* system_reporting.rs, memory: `available_bytes`, 0.0 unless a column
\* named available has a value (the last such column wins)
AvailableBytes(legend, last_point) ==
    LET cols == {i \in 1..Len(legend) :
                    legend[i] = "available" /\ Get(last_point, i) # None}
    IN  IF cols = {} THEN 0
        ELSE Unwrap(Get(last_point, CHOOSE i \in cols : \A j \in cols : j <= i))

\* system_reporting.rs, memory: used = total - available
UsedMemory(legend, last_point, total) ==
    LET available_bytes == AvailableBytes(legend, last_point)
    IN  IF total > 0 /\ available_bytes > 0
        THEN <<Setting("system_memory_used_bytes", "", total - available_bytes)>>
        ELSE <<>>

\* the "disktemp" arm
disktemp(res, last_point) ==
    LET idx == Position(res.legend, {"temperature_value", "value"})
    IN  IF idx # None
        THEN SetIfSome("disk_temperature_celsius", Device(res),
                       Get(last_point, Unwrap(idx)))
        ELSE IF Len(res.legend) > 1
        THEN SetIfSome("disk_temperature_celsius", Device(res), Last(last_point))
        ELSE <<>>

\* one named column of a per-device sample
Column(metric, name, res, last_point) ==
    LET idx == Position(res.legend, {name})
    IN  IF idx # None
        THEN SetIfSome(metric, Device(res), Get(last_point, Unwrap(idx)))
        ELSE <<>>

disk_reads_first(res, last_point) ==
    IF Position(res.legend, {"reads"}) # None
    THEN Column("disk_read_bytes_per_second", "reads", res, last_point)
            \o Column("disk_write_bytes_per_second", "writes", res, last_point)
    ELSE <<>>

\* the "disk" arm
disk(res, last_point) ==
    Column("disk_read_bytes_per_second", "reads", res, last_point)
        \o Column("disk_write_bytes_per_second", "writes", res, last_point)

\* the "interface" arm
interface(res, last_point) ==
    Column("network_receive_bytes_per_second", "received", res, last_point)
        \o Column("network_transmit_bytes_per_second", "sent", res, last_point)

\* `match res.name.as_str()`: the settings one sample's last row makes;
\* total is what system_memory_total_bytes holds when the sample is decoded
Arms(res, last_point, b, total) ==
    CASE res.name = "cpu" ->
            SetEachColumn("system_cpu_usage_percent", res.legend, last_point, 1)
      [] res.name = "cputemp" /\ b = "collector" ->
            SetEachColumn("system_cpu_temperature_celsius", res.legend,
                          last_point, 1)
      [] res.name = "memory" ->
            SetEachColumn("system_memory_bytes", res.legend, last_point, 1)
                \o (IF b = "collector"
                    THEN UsedMemory(res.legend, last_point, total) ELSE <<>>)
      [] res.name = "disktemp" -> disktemp(res, last_point)
      [] res.name = "disk" -> disk(res, last_point)
      [] res.name = "interface" -> interface(res, last_point)
      [] OTHER -> <<>>

DecodeFirstRow(res, b, total) ==
    IF res.data = <<>> THEN <<>> ELSE Arms(res, res.data[1], b, total)

\* `if let Some(last_point) = res.data.last() { match ... }`
Decode(res, b, total) ==
    IF res.data = <<>> THEN <<>>
    ELSE Arms(res, res.data[Len(res.data)], b, total)

----------------------------------------------------------------------------
(* The reporting collection: what the remote may answer *)

\* all sequences over S of length at most n
SeqsUpTo(S, n) == UNION {[1..k -> S] : k \in 0..n}

\* Option<Vec<String>> identifiers of a descriptor
IdentifierLists == {None, Some(<<>>), Some(<<"sda">>), Some(<<"sda", "sdb">>)}

\* descriptors reporting.graphs may list: the per-device families, a scalar
\* family and a family the exporter does not know
Graphs ==
    {Graph(n, ids) : n \in PerDeviceNames \cup {"cpu", "nfsstat"},
                     ids \in IdentifierLists}

\* an older row, before the last one
OlderRow == <<{5}, {9}>>

\* samples reporting.get_data may return, by family
ScalarSamples ==
    { Sample("cpu", None, <<"user", "idle">>, <<<<{1}, {2}>>>>),
      Sample("cpu", None, <<"user", "idle">>, <<OlderRow, <<{}, {2}>>>>),
      Sample("cputemp", None, <<"cpu0", "cpu1">>, <<<<{1}, {2}>>>>),
      Sample("memory", None, <<"time", "available">>, <<<<{1}, {2}>>>>),
      Sample("memory", None, <<"available", "free">>, <<OlderRow, <<{}, {2}>>>>) }

DiskTempSamples ==
    {Sample("disktemp", Some("sda"), l, <<r>>) :
        l \in { <<"time", "temperature_value">>, <<"value", "temperature_value">>,
                <<"temperature_value", "value">>, <<"time", "value">>,
                <<"time", "temp">> },
        r \in { <<{1}, {2}>>, <<{}, {2}>> }}
    \cup { Sample("disktemp", None, <<"time", "value">>, <<OlderRow, <<{1}, {2}>>>>),
           Sample("disktemp", Some("sda"), <<"temp">>, <<<<{1}>>>>),
           Sample("disktemp", Some("sda"), <<"time", "value">>, <<<<{1}>>>>) }

DiskSamples ==
    {Sample("disk", Some("sda"), l, <<r>>) :
        l \in { <<"reads", "writes">>, <<"writes", "reads">>,
                <<"time", "reads">>, <<"writes", "time">> },
        r \in { <<{1}, {2}>>, <<{1}, {}>> }}
    \cup { Sample("disk", None, <<"reads", "writes">>, <<OlderRow, <<{1}, {2}>>>>),
           Sample("disk", Some("sda"), <<"reads", "writes">>, <<<<{1}>>>>) }

InterfaceSamples ==
    {Sample("interface", Some("eth0"), l, <<r>>) :
        l \in { <<"received", "sent">>, <<"sent", "received">>,
                <<"time", "sent">>, <<"received", "time">> },
        r \in { <<{1}, {2}>>, <<{}, {2}>> }}
    \cup { Sample("interface", None, <<"sent", "received">>,
                  <<OlderRow, <<{1}, {2}>>>>) }

\* samples that carry nothing to decode: no rows, an empty last row, a
\* family the exporter does not know, none of the columns looked for, nulls
EmptySamples ==
    { Sample("cpu", None, <<"user", "idle">>, <<>>),
      Sample("disk", Some("sda"), <<"reads", "writes">>, <<<<>>>>),
      Sample("nfsstat", None, <<"time", "value">>, <<<<{1}, {2}>>>>),
      Sample("disk", Some("sda"), <<"time", "busy">>, <<<<{1}, {2}>>>>),
      Sample("interface", Some("eth0"), <<"received", "sent">>, <<<<{}, {}>>>>) }

Samples ==
    ScalarSamples \cup DiskTempSamples \cup DiskSamples \cup InterfaceSamples
        \cup EmptySamples

\* what system_memory_total_bytes may hold when a cycle starts: 0.0 until
\* a query_system_info of an earlier cycle has set it
Totals == {0, 8}

\* SystemInfo::physmem, an Option<u64>
Physmems == {None, Some(16)}

\* the system information block: not reached yet, or what it did
NoSystemInfo == [status |-> "none", physmem |-> None]

SystemInfo(outcome, physmem) == [status |-> outcome, physmem |-> physmem]

KeepTotal(total, physmem) == total

\* `if let Some(physmem) = info.physmem { system_memory_total_bytes.set(..) }`
SetTotal(total, physmem) ==
    IF physmem = None THEN total ELSE Unwrap(physmem)

----------------------------------------------------------------------------
(* The data protection and alert collections *)

\* a GaugeVec without children
NoChildren == [labels \in {} |-> 0]

\* gauge.with_label_values(labels).set(value)
Set(gauge, labels, value) ==
    [l \in DOMAIN gauge \cup {labels} |->
        IF l = labels THEN value ELSE gauge[l]]

\* GaugeVec::reset(): every child is removed
Reset(gauge) == NoChildren

\* CloudSyncTask and CloudSyncJob: the fields the collection reads;
\* percent is job.progress.percent, None if either Option is None
CloudSyncTask(description, job) == [description |-> description, job |-> job]

CloudSyncJob(state, percent) == [state |-> state, percent |-> percent]

\* SnapshotTask: state is task.state's state, None without a task.state
SnapshotTask(dataset, state) == [dataset |-> dataset, state |-> state]

\* TruenasAlert
TruenasAlert(uuid, level, dismissed, formatted) ==
    [uuid |-> uuid, level |-> level, dismissed |-> dismissed,
     formatted |-> formatted]

\* `for task in tasks` of the cloud sync collection
RECURSIVE ForCloudSyncTasks(_, _)
ForCloudSyncTasks(tasks, gauges) ==
    IF tasks = <<>> THEN gauges
    ELSE LET task == Head(tasks)
             job == Unwrap(task.job)
         IN  ForCloudSyncTasks(Tail(tasks),
                IF task.job = None THEN gauges
                ELSE [status |-> Set(gauges.status,
                                     <<task.description, job.state>>, 1),
                      progress |->
                         IF job.percent = None THEN gauges.progress
                         ELSE Set(gauges.progress, <<task.description>>,
                                  Unwrap(job.percent))])

\* the Ok arm of query_cloud_sync_tasks: cloud_sync.rs resets both gauges
\* before the loop, server.rs does not
cloud_sync(b, tasks, gauges) ==
    ForCloudSyncTasks(tasks,
        IF b = "collector"
        THEN [status |-> Reset(gauges.status),
              progress |-> Reset(gauges.progress)]
        ELSE gauges)

\* `for task in tasks` of the snapshot task collection
RECURSIVE ForSnapshotTasks(_, _)
ForSnapshotTasks(tasks, gauge) ==
    IF tasks = <<>> THEN gauge
    ELSE LET task == Head(tasks)
         IN  ForSnapshotTasks(Tail(tasks),
                IF task.state = None THEN gauge
                ELSE Set(gauge, <<task.dataset, Unwrap(task.state)>>, 1))

\* the Ok arm of query_snapshot_tasks: snapshot.rs resets the gauge before
\* the loop, server.rs does not
snapshot(b, tasks, gauge) ==
    ForSnapshotTasks(tasks, IF b = "collector" THEN Reset(gauge) ELSE gauge)

\* `if active { "true" } else { "false" }` of `active = !alert.dismissed`
Active(a) == IF a.dismissed THEN "false" ELSE "true"

\* the key of an alert in alert_counts, as the labels it is set under
Key(a) == <<a.level, Active(a)>>

\* alert.rs: the keys inserted with 0.0 before the alerts are counted
Combinations ==
    {<<level, active>> : level \in {"CRITICAL", "ERROR", "WARNING", "INFO"},
                         active \in {"true", "false"}}

\* alert_counts after `for alert in alerts`, from the keys inserted before
Counted(alerts, zeroed) ==
    [k \in zeroed \cup {Key(alerts[i]) : i \in 1..Len(alerts)} |->
        Cardinality({i \in 1..Len(alerts) : Key(alerts[i]) = k})]

\* `for ((level, active), count) in alert_counts`: each key's child is set
SetEach(gauge, counts) ==
    [l \in DOMAIN gauge \cup DOMAIN counts |->
        IF l \in DOMAIN counts THEN counts[l] ELSE gauge[l]]

\* alert.rs: the alert_info child of each alert
RECURSIVE ForAlerts(_, _)
ForAlerts(alerts, gauge) ==
    IF alerts = <<>> THEN gauge
    ELSE LET a == Head(alerts)
         IN  ForAlerts(Tail(alerts),
                Set(gauge, <<a.level, a.formatted, a.uuid, Active(a)>>, 1))

\* the processing of the alerts of an Ok: alert.rs starts the counts from
\* zero for the eight combinations and rebuilds alert_info; server.rs
\* counts from an empty map and has no alert_info
alert(b, alerts, gauges) ==
    IF b = "collector"
    THEN [count |-> SetEach(gauges.count, Counted(alerts, Combinations)),
          info |-> ForAlerts(alerts, Reset(gauges.info))]
    ELSE [count |-> SetEach(gauges.count, Counted(alerts, {})),
          info |-> gauges.info]

\* what a collector returned and how often its Ok arm or callback ran
Collection(returned, collection_status, processed) ==
    [result |-> returned, status |-> collection_status,
     processed |-> processed]

NoCollection == Collection("none", "none", 0)

collect_propagating(outcome) ==
    IF outcome = "Ok" THEN Collection("Ok", "Success", 1)
    ELSE Collection("Err", "none", 0)

\* collect_with_handler: `match query_future.await`
collect_with_handler(outcome) ==
    IF outcome = "Ok" THEN Collection("Ok", "Success", 1)
    ELSE Collection("Ok", "Failed", 0)

\* what runs on a query's outcome: in the collector text the collector's
\* match (collect_with_handler for the alerts) and its CollectionResult, in
\* server.rs `if let Ok(..)`, which returns nothing
Collect(b, outcome) ==
    IF b = "collector" THEN collect_with_handler(outcome)
    ELSE Collection("none", "none", IF outcome = "Ok" THEN 1 ELSE 0)

\* a client query's return: which query, Ok or Err, the items of an Ok
Reply(query, outcome, data) ==
    [query |-> query, outcome |-> outcome, data |-> data]

NoReply == Reply("none", "none", <<>>)

\* what the remote may list
CloudSyncTasks ==
    { CloudSyncTask("task1", None),
      CloudSyncTask("task1", Some(CloudSyncJob("RUNNING", Some(50)))),
      CloudSyncTask("task1", Some(CloudSyncJob("SUCCESS", None))) }

SnapshotTasks ==
    { SnapshotTask("tank/data", None),
      SnapshotTask("tank/data", Some("RUNNING")),
      SnapshotTask("tank/data", Some("FINISHED")) }

Alerts ==
    { TruenasAlert("a1", "CRITICAL", FALSE, "pool degraded"),
      TruenasAlert("a2", "CRITICAL", TRUE, "disk failed"),
      TruenasAlert("a3", "WARNING", FALSE, "update available") }

\* the returns of a query: Err, or Ok with a list of at most n items
Replies(query, items, n) ==
    {Reply(query, "Err", <<>>)}
        \cup {Reply(query, "Ok", data) : data \in SeqsUpTo(items, n)}

----------------------------------------------------------------------------
(* State *)

\* a call that has not opened, sent or drawn anything yet
NoAttempts == [opens |-> 0, handshakes |-> 0, auths |-> 0, methods |-> 0,
               ids |-> 0]

\* the ways connect_websocket fails: building the TLS connector, the TLS
\* connect, the plain connect
OpenFailures == {"open_tls_build_err", "open_tls_err", "open_ws_err"}

ConnectErrorWrapped(outcome) ==
    Err("Config", <<"TLS", "connection", "failed">>)

\* connect_websocket's map_err: the error each failure is returned as
ConnectError(outcome) ==
    IF outcome = "open_ws_err" THEN Err("WebSocket", <<>>)
    ELSE IF outcome = "open_tls_err"
    THEN Err("Config", <<"TLS", "connection", "failed">>)
    ELSE Err("Config", <<>>)

ConnectionAtRest ==
    /\ connection = None
    /\ lockHolder = NoProc
    /\ request_id = 0
    /\ opened = 0
    /\ wire = <<>>
    /\ inbound = [c \in {} |-> 0]
    /\ pc = [p \in Procs |-> "idle"]
    /\ conn = [p \in Procs |-> None]
    /\ msg = [p \in Procs |-> NoFrame]
    /\ io = [p \in Procs |-> "none"]
    /\ result = [p \in Procs |-> Pending]
    /\ calls = 0
    /\ closes = 0
    /\ attempts = [p \in Procs |-> NoAttempts]

\* the exporter before its first tick: no cycle run, the gauge at the 0.0 a
\* new Gauge holds, no health request made
LoopAtRest ==
    /\ position = 0
    /\ any_success = FALSE
    /\ up = 0
    /\ attempted = <<>>
    /\ succeeded = {}
    /\ cycles = 0
    /\ completed = None
    /\ outstanding = {}
    /\ health = "none"

\* the reporting collection not running
ReportingIdle ==
    /\ stage = "off"
    /\ graphs = <<>>
    /\ queries = <<>>
    /\ requested = 0
    /\ results = <<>>
    /\ emitted = <<>>
    /\ status = "none"
    /\ system_memory_total_bytes = 0
    /\ system_info = NoSystemInfo

ReportingAtRest == build = "server" /\ ReportingIdle

\* MetricsCollector::new: no GaugeVec has a child yet; no collection has run
GaugesAtRest ==
    /\ cloud_sync_status = NoChildren
    /\ cloud_sync_progress = NoChildren
    /\ snapshot_task_status = NoChildren
    /\ alert_count = NoChildren
    /\ alert_info = NoChildren
    /\ turn = "cloud_sync"
    /\ rounds = 0
    /\ reply = NoReply
    /\ collected = NoCollection

Init ==
    /\ ConnectionAtRest
    /\ config = DefaultConfig
    /\ LoopAtRest
    /\ ReportingAtRest
    /\ GaugesAtRest

\* a caller issues execute_query()
Call(p) ==
    /\ pc[p] = "idle"
    /\ calls < MaxCalls
    /\ calls' = calls + 1
    /\ pc' = [pc EXCEPT ![p] = "ec_lock"]
    /\ msg' = [msg EXCEPT ![p] = NoFrame]
    /\ io' = [io EXCEPT ![p] = "none"]
    /\ result' = [result EXCEPT ![p] = Pending]
    /\ attempts' = [attempts EXCEPT ![p] = NoAttempts]
    /\ UNCHANGED <<connection, lockHolder, request_id, opened, wire, inbound,
                   conn, closes>>
    /\ UNCHANGED <<cycleVars, reportVars, gaugeVars>>

\* ensure_connected: take the lock and look at the slot; with an
\* authenticated connection in it, return Ok (releasing the lock)
EnsureConnected(p) ==
    /\ pc[p] = "ec_lock"
    /\ LockFree
    /\ IF connection = None
       THEN /\ lockHolder' = p
            /\ pc' = [pc EXCEPT ![p] = "ec_connect"]
       ELSE IF NeedsAuth(Unwrap(connection))
       THEN /\ lockHolder' = p
            /\ pc' = [pc EXCEPT ![p] = "hs_send"]
       ELSE /\ lockHolder' = lockHolder
            /\ pc' = [pc EXCEPT ![p] = "eq_lock"]
    /\ io' = [io EXCEPT ![p] = "none"]
    /\ UNCHANGED <<connection, request_id, opened, wire, inbound, conn, msg,
                   result, calls, closes, attempts>>
    /\ UNCHANGED <<cycleVars, reportVars, gaugeVars>>

RetryCall(p, e) ==
    /\ lockHolder' = NoProc
    /\ pc' = [pc EXCEPT ![p] = "ec_lock"]
    /\ result' = result

FailCallHoldingLock(p, e) ==
    /\ lockHolder' = lockHolder
    /\ pc' = [pc EXCEPT ![p] = "idle"]
    /\ result' = [result EXCEPT ![p] = e]

\* ensure_connected failed: the error goes out through execute_query's `?`
FailCall(p, e) ==
    /\ lockHolder' = NoProc
    /\ pc' = [pc EXCEPT ![p] = "idle"]
    /\ result' = [result EXCEPT ![p] = e]

\* connect_websocket
ConnectWebsocket(p) ==
    /\ pc[p] = "ec_connect"
    /\ \/ /\ opened < MaxConns
          /\ opened' = opened + 1
          /\ connection' = Some(NewConnection(opened + 1))
          /\ inbound' = [c \in 1..(opened + 1) |->
                            IF c \in DOMAIN inbound THEN inbound[c] ELSE 0]
          /\ pc' = [pc EXCEPT ![p] = "hs_send"]
          /\ UNCHANGED <<lockHolder, result>>
          /\ io' = [io EXCEPT ![p] = "open_ok"]
       \/ /\ \E o \in OpenFailures :
                /\ io' = [io EXCEPT ![p] = o]
                /\ FailCall(p, ConnectError(o))
          /\ UNCHANGED <<connection, opened, inbound>>
    /\ attempts' = [attempts EXCEPT ![p].opens = @ + 1]
    /\ UNCHANGED <<request_id, wire, conn, msg, calls, closes>>
    /\ UNCHANGED <<cycleVars, reportVars, gaugeVars>>

\* authenticate_connection: send the DDP connect frame
HandshakeSend(p) ==
    /\ pc[p] = "hs_send"
    /\ connection # None
    /\ \E w \in WriteOutcomes(Unwrap(connection)) :
        /\ io' = [io EXCEPT ![p] = w]
        /\ IF w = "write_ok"
           THEN /\ wire' = Append(wire, Frame(Unwrap(connection), "connect", <<>>))
                /\ pc' = [pc EXCEPT ![p] = "hs_read"]
                /\ UNCHANGED <<connection, lockHolder, result>>
           ELSE /\ connection' = DropConnection(connection)
                /\ FailCall(p, Err("WebSocket", <<>>))
                /\ UNCHANGED wire
    /\ attempts' = [attempts EXCEPT ![p].handshakes = @ + 1]
    /\ UNCHANGED <<request_id, opened, inbound, conn, msg, calls, closes>>
    /\ UNCHANGED <<cycleVars, reportVars, gaugeVars>>

\* authenticate_connection: read the connect response (any frame will do,
\* and so will the end of the stream), then sleep
HandshakeRead(p) ==
    /\ pc[p] = "hs_read"
    /\ connection # None
    /\ \E r \in ReadOutcomes(Unwrap(connection)) :
        /\ io' = [io EXCEPT ![p] = r.io]
        /\ IF r.io = "read_err"
           THEN /\ connection' = DropConnection(connection)
                /\ FailCall(p, Err("WebSocket", <<>>))
                /\ UNCHANGED inbound
           ELSE /\ connection' = Some(AfterRead(Unwrap(connection), r))
                /\ inbound' = IF r.io = "read_ok"
                              THEN [inbound EXCEPT ![Unwrap(connection).cid] = @ + 1]
                              ELSE inbound
                /\ pc' = [pc EXCEPT ![p] = "auth_send"]
                /\ UNCHANGED <<lockHolder, result>>
    /\ UNCHANGED <<request_id, opened, wire, conn, msg, calls, closes, attempts>>
    /\ UNCHANGED <<cycleVars, reportVars, gaugeVars>>

\* authenticate_connection: send auth.login_with_api_key
AuthSend(p) ==
    /\ pc[p] = "auth_send"
    /\ connection # None
    /\ request_id' = next_id(request_id).counter
    /\ \E w \in WriteOutcomes(Unwrap(connection)) :
        /\ io' = [io EXCEPT ![p] = w]
        /\ IF w = "write_ok"
           THEN /\ wire' = Append(wire, Frame(Unwrap(connection), "auth",
                                              next_id(request_id).id))
                /\ pc' = [pc EXCEPT ![p] = "auth_read"]
                /\ UNCHANGED <<connection, lockHolder, result>>
           ELSE /\ connection' = DropConnection(connection)
                /\ FailCall(p, Err("WebSocket", <<>>))
                /\ UNCHANGED wire
    /\ attempts' = [attempts EXCEPT ![p].auths = @ + 1, ![p].ids = @ + 1]
    /\ UNCHANGED <<opened, inbound, conn, msg, calls, closes>>
    /\ UNCHANGED <<cycleVars, reportVars, gaugeVars>>

\* authenticate_connection: read the auth response; ensure_connected then
\* marks the connection authenticated or drops it
AuthRead(p) ==
    /\ pc[p] = "auth_read"
    /\ connection # None
    /\ \E r \in ReadOutcomes(Unwrap(connection)) :
        /\ io' = [io EXCEPT ![p] = r.io]
        /\ msg' = [msg EXCEPT ![p] = r.frame]
        /\ inbound' = IF r.io = "read_ok"
                      THEN [inbound EXCEPT ![Unwrap(connection).cid] = @ + 1]
                      ELSE inbound
        /\ IF AuthOutcome(r) = Ok
           THEN /\ connection' =
                      Some(MarkAuthenticated(AfterRead(Unwrap(connection), r)))
                /\ lockHolder' = NoProc
                /\ pc' = [pc EXCEPT ![p] = "eq_lock"]
                /\ UNCHANGED result
           ELSE /\ connection' = DropConnection(connection)
                /\ FailCall(p, AuthOutcome(r))
    /\ UNCHANGED <<request_id, opened, wire, conn, calls, closes, attempts>>
    /\ UNCHANGED <<cycleVars, reportVars, gaugeVars>>

\* execute_query: take the lock, check the connection out, send the request
QuerySend(p) ==
    /\ pc[p] = "eq_lock"
    /\ LockFree
    /\ IF connection = None
       THEN /\ pc' = [pc EXCEPT ![p] = "idle"]
            /\ result' = [result EXCEPT ![p] = NoActiveConnection]
            /\ io' = [io EXCEPT ![p] = "none"]
            /\ UNCHANGED <<connection, lockHolder, request_id, wire, conn,
                           attempts>>
       ELSE /\ connection' = None
            /\ request_id' = next_id(request_id).counter
            /\ attempts' = [attempts EXCEPT ![p].methods = @ + 1,
                                            ![p].ids = @ + 1]
            /\ \E w \in WriteOutcomes(Unwrap(connection)) :
                /\ io' = [io EXCEPT ![p] = w]
                /\ IF w = "write_ok"
                   THEN /\ wire' = Append(wire, Frame(Unwrap(connection), "method",
                                                      next_id(request_id).id))
                        /\ conn' = [conn EXCEPT ![p] = connection]
                        /\ lockHolder' = p
                        /\ pc' = [pc EXCEPT ![p] = "eq_read"]
                        /\ UNCHANGED result
                   ELSE /\ pc' = [pc EXCEPT ![p] = "idle"]
                        /\ result' = [result EXCEPT ![p] = Err("WebSocket", <<>>)]
                        /\ UNCHANGED <<lockHolder, wire, conn>>
    /\ UNCHANGED <<opened, inbound, msg, calls, closes>>
    /\ UNCHANGED <<cycleVars, reportVars, gaugeVars>>

\* execute_query: read the response, check the connection back in if a frame
\* came, interpret the frame and return
QueryRead(p) ==
    /\ pc[p] = "eq_read"
    /\ conn[p] # None
    /\ \E r \in ReadOutcomes(Unwrap(conn[p])) :
        /\ io' = [io EXCEPT ![p] = r.io]
        /\ msg' = [msg EXCEPT ![p] = r.frame]
        /\ inbound' = IF r.io = "read_ok"
                      THEN [inbound EXCEPT ![Unwrap(conn[p]).cid] = @ + 1]
                      ELSE inbound
        /\ connection' = IF QueryOutcome(r).expired
                         THEN None
                         ELSE CheckIn(r, Unwrap(conn[p]))
        /\ result' = [result EXCEPT ![p] = QueryOutcome(r).result]
    /\ conn' = [conn EXCEPT ![p] = None]
    /\ lockHolder' = NoProc
    /\ pc' = [pc EXCEPT ![p] = "idle"]
    /\ UNCHANGED <<request_id, opened, wire, calls, closes, attempts>>
    /\ UNCHANGED <<cycleVars, reportVars, gaugeVars>>

\* close: take the lock and take the connection out of the slot
CloseTake(p) ==
    /\ pc[p] = "idle"
    /\ closes < MaxCloses
    /\ LockFree
    /\ closes' = closes + 1
    /\ IF connection = None
       THEN UNCHANGED <<connection, lockHolder, pc, conn>>
       ELSE /\ conn' = [conn EXCEPT ![p] = connection]
            /\ connection' = None
            /\ lockHolder' = p
            /\ pc' = [pc EXCEPT ![p] = "cl_close"]
    /\ UNCHANGED <<request_id, opened, wire, inbound, msg, io, result, calls,
                   attempts>>
    /\ UNCHANGED <<cycleVars, reportVars, gaugeVars>>

\* close: the closing handshake is over, the stream is dropped
CloseFinish(p) ==
    /\ pc[p] = "cl_close"
    /\ conn' = [conn EXCEPT ![p] = None]
    /\ lockHolder' = NoProc
    /\ pc' = [pc EXCEPT ![p] = "idle"]
    /\ UNCHANGED <<connection, request_id, opened, wire, inbound, msg, io,
                   result, calls, closes, attempts>>
    /\ UNCHANGED <<cycleVars, reportVars, gaugeVars>>

Next ==
    \E p \in Procs :
        \/ Call(p)
        \/ EnsureConnected(p)
        \/ ConnectWebsocket(p)
        \/ HandshakeSend(p)
        \/ HandshakeRead(p)
        \/ AuthSend(p)
        \/ AuthRead(p)
        \/ QuerySend(p)
        \/ QueryRead(p)
        \/ CloseTake(p)
        \/ CloseFinish(p)

Spec == Init /\ [][Next]_<<vars, cycleVars, reportVars, gaugeVars>>

\* what a call or a close() in progress does next: a task that can run is
\* run by the executor, the lock is granted when it is free, and the remote
\* answers, errors or closes every exchange
Progress(p) ==
    \/ EnsureConnected(p)
    \/ ConnectWebsocket(p)
    \/ HandshakeSend(p)
    \/ HandshakeRead(p)
    \/ AuthSend(p)
    \/ AuthRead(p)
    \/ QuerySend(p)
    \/ QueryRead(p)
    \/ CloseFinish(p)

SpecFair ==
    /\ Init
    /\ [][Next]_<<vars, cycleVars, reportVars, gaugeVars>>
    /\ \A p \in Procs : WF_<<vars, cycleVars, reportVars, gaugeVars>>(Progress(p))

----------------------------------------------------------------------------
(* The collection loop *)

\* collect_metrics_loop: ticker.tick() fires and collect_metrics starts
Tick ==
    /\ position = 0
    /\ cycles < MaxCycles
    /\ any_success' = FALSE
    /\ attempted' = <<>>
    /\ succeeded' = {}
    /\ position' = Upcoming(1, config, {})
    /\ UNCHANGED <<config, up, cycles, completed, outstanding, health>>
    /\ UNCHANGED <<vars, reportVars, gaugeVars>>

\* collect_metrics calls the next client query and awaits it
SendQuery ==
    /\ position \in 1..Len(Queries)
    /\ Queries[position] \notin outstanding
    /\ outstanding' = outstanding \cup {Queries[position]}
    /\ position' = Awaited(position, config, succeeded)
    /\ UNCHANGED <<config, any_success, up, attempted, succeeded, cycles,
                   completed, health>>
    /\ UNCHANGED <<vars, reportVars, gaugeVars>>

\* collect_metrics: the client query returns Ok or Err, and its match runs
RunQuery ==
    /\ position \in 1..Len(Queries)
    /\ Queries[position] \in outstanding
    /\ outstanding' = outstanding \ {Queries[position]}
    /\ \E outcome \in {"Ok", "Err"} :
        LET q == Queries[position]
            ok == IF outcome = "Ok" THEN succeeded \cup {q} ELSE succeeded
        IN  /\ attempted' = Append(attempted, q)
            /\ succeeded' = ok
            /\ any_success' = (any_success
                                \/ (outcome = "Ok" /\ q \in SetsAnySuccess))
            /\ position' = Proceed(position, outcome, config, ok)
    /\ UNCHANGED <<config, up, cycles, completed, health>>
    /\ UNCHANGED <<vars, reportVars, gaugeVars>>

\* collect_metrics returns (bail! without any_success) and the loop sets
\* the gauge, then goes back to ticker.tick()
EndCycle ==
    /\ position = AtCheck
    /\ up' = IF any_success THEN 1 ELSE 0
    /\ completed' = Some([ok |-> any_success, any |-> succeeded # {}])
    /\ cycles' = cycles + 1
    /\ position' = 0
    /\ UNCHANGED <<config, any_success, attempted, succeeded, outstanding,
                   health>>
    /\ UNCHANGED <<vars, reportVars, gaugeVars>>

\* a GET /health request arrives
HealthRequest ==
    /\ health # "pending"
    /\ health' = "pending"
    /\ UNCHANGED <<config, position, any_success, up, attempted, succeeded,
                   cycles, completed, outstanding>>
    /\ UNCHANGED <<vars, reportVars, gaugeVars>>

\* health_handler answers it
HealthResponse ==
    /\ health = "pending"
    /\ health' = health_handler(up)
    /\ UNCHANGED <<config, position, any_success, up, attempted, succeeded,
                   cycles, completed, outstanding>>
    /\ UNCHANGED <<vars, reportVars, gaugeVars>>

InitLoop ==
    /\ ConnectionAtRest
    /\ config \in Configs
    /\ LoopAtRest
    /\ ReportingAtRest
    /\ GaugesAtRest

NextLoop ==
    \/ Tick
    \/ SendQuery
    \/ RunQuery
    \/ EndCycle
    \/ HealthRequest
    \/ HealthResponse

SpecLoop == InitLoop /\ [][NextLoop]_<<vars, cycleVars, reportVars, gaugeVars>>

----------------------------------------------------------------------------
(* The reporting collection *)

\* `if state.config.metrics.collect_system_metrics` is false: the block
\* is skipped
SystemInfoSkipped ==
    /\ stage = "info"
    /\ ~config.collect_system_metrics
    /\ system_info' = SystemInfo("skipped", None)
    /\ stage' = "graphs"
    /\ UNCHANGED <<build, graphs, queries, requested, results, emitted, status,
                   system_memory_total_bytes>>
    /\ UNCHANGED <<vars, cycleVars, gaugeVars>>

\* query_system_info returns Ok: the total is set from physmem, if any
SystemInfoOk ==
    /\ stage = "info"
    /\ config.collect_system_metrics
    /\ \E physmem \in Physmems :
        /\ system_memory_total_bytes' =
                SetTotal(system_memory_total_bytes, physmem)
        /\ system_info' = SystemInfo("Ok", physmem)
    /\ stage' = "graphs"
    /\ UNCHANGED <<build, graphs, queries, requested, results, emitted, status>>
    /\ UNCHANGED <<vars, cycleVars, gaugeVars>>

\* query_system_info fails: a warning
SystemInfoErr ==
    /\ stage = "info"
    /\ config.collect_system_metrics
    /\ system_info' = SystemInfo("Err", None)
    /\ stage' = "graphs"
    /\ UNCHANGED <<build, graphs, queries, requested, results, emitted, status,
                   system_memory_total_bytes>>
    /\ UNCHANGED <<vars, cycleVars, gaugeVars>>

\* query_reporting_graphs returns the descriptors
GraphsOk ==
    /\ stage = "graphs"
    /\ graphs' \in SeqsUpTo(Graphs, MaxGraphs)
    /\ stage' = "build"
    /\ UNCHANGED <<build, queries, requested, results, emitted, status>>
    /\ UNCHANGED <<system_memory_total_bytes, system_info>>
    /\ UNCHANGED <<vars, cycleVars, gaugeVars>>

\* query_reporting_graphs fails: a warning, and the collection has failed
GraphsErr ==
    /\ stage = "graphs"
    /\ stage' = "done"
    /\ status' = "Failed"
    /\ UNCHANGED <<build, graphs, queries, requested, results, emitted>>
    /\ UNCHANGED <<system_memory_total_bytes, system_info>>
    /\ UNCHANGED <<vars, cycleVars, gaugeVars>>

\* the batch list is built and, unless it is empty, query_reporting_data
\* is called with it
SendBatch ==
    /\ stage = "build"
    /\ queries' = BuildQueries(graphs, build)
    /\ IF queries' # <<>>
       THEN /\ requested' = requested + 1
            /\ stage' = "data"
            /\ UNCHANGED status
       ELSE /\ stage' = "done"
            /\ status' = "Failed"
            /\ UNCHANGED requested
    /\ UNCHANGED <<build, graphs, results, emitted>>
    /\ UNCHANGED <<system_memory_total_bytes, system_info>>
    /\ UNCHANGED <<vars, cycleVars, gaugeVars>>

\* query_reporting_data returns Ok: the samples are handed to the loop
DataOk ==
    /\ stage = "data"
    /\ results' = <<>>
    /\ stage' = "decode"
    /\ graphs' = <<>>
    /\ queries' = <<>>
    /\ UNCHANGED <<build, requested, emitted, status>>
    /\ UNCHANGED <<system_memory_total_bytes, system_info>>
    /\ UNCHANGED <<vars, cycleVars, gaugeVars>>

\* query_reporting_data fails: a warning, and the collection has failed
DataErr ==
    /\ stage = "data"
    /\ stage' = "done"
    /\ status' = "Failed"
    /\ graphs' = <<>>
    /\ queries' = <<>>
    /\ UNCHANGED <<build, requested, results, emitted>>
    /\ UNCHANGED <<system_memory_total_bytes, system_info>>
    /\ UNCHANGED <<vars, cycleVars, gaugeVars>>

\* `for res in results`: the next sample of the reply is decoded
DecodeSample ==
    /\ stage = "decode"
    /\ Len(results) < MaxSamples
    /\ \E res \in Samples :
        /\ results' = Append(results, res)
        /\ emitted' = emitted \o Decode(res, build, system_memory_total_bytes)
    /\ UNCHANGED <<build, stage, graphs, queries, requested, status>>
    /\ UNCHANGED <<system_memory_total_bytes, system_info>>
    /\ UNCHANGED <<vars, cycleVars, gaugeVars>>

\* the reply has no further sample: the loop is over
DecodeDone ==
    /\ stage = "decode"
    /\ stage' = "done"
    /\ status' = "Success"
    /\ UNCHANGED <<build, graphs, queries, requested, results, emitted>>
    /\ UNCHANGED <<system_memory_total_bytes, system_info>>
    /\ UNCHANGED <<vars, cycleVars, gaugeVars>>

InitReporting ==
    /\ ConnectionAtRest
    /\ config \in {c \in Configs : c.collect_pool_metrics}
    /\ LoopAtRest
    /\ build \in {"server", "collector"}
    /\ stage = "info"
    /\ system_memory_total_bytes \in Totals
    /\ system_info = NoSystemInfo
    /\ GaugesAtRest
    /\ graphs = <<>>
    /\ queries = <<>>
    /\ requested = 0
    /\ results = <<>>
    /\ emitted = <<>>
    /\ status = "none"

NextReporting ==
    \/ SystemInfoSkipped
    \/ SystemInfoOk
    \/ SystemInfoErr
    \/ GraphsOk
    \/ GraphsErr
    \/ SendBatch
    \/ DataOk
    \/ DataErr
    \/ DecodeSample
    \/ DecodeDone

SpecReporting ==
    InitReporting /\ [][NextReporting]_<<vars, cycleVars, reportVars, gaugeVars>>

----------------------------------------------------------------------------
(* The data protection and alert collections: steps *)

\* the cloud sync collection: query_cloud_sync_tasks returns and is handled
CloudSyncCollect ==
    /\ turn = "cloud_sync"
    /\ rounds < MaxRounds
    /\ \E r \in Replies("query_cloud_sync_tasks", CloudSyncTasks, MaxTasks) :
        LET ran == Collect(build, r.outcome)
            set == cloud_sync(build, r.data,
                              [status |-> cloud_sync_status,
                               progress |-> cloud_sync_progress])
        IN  /\ reply' = r
            /\ collected' = ran
            /\ cloud_sync_status' =
                    IF ran.processed = 1 THEN set.status ELSE cloud_sync_status
            /\ cloud_sync_progress' =
                    IF ran.processed = 1 THEN set.progress
                    ELSE cloud_sync_progress
    /\ turn' = "snapshot"
    /\ UNCHANGED <<snapshot_task_status, alert_count, alert_info, rounds>>
    /\ UNCHANGED <<vars, cycleVars, reportVars>>

\* the snapshot task collection
SnapshotCollect ==
    /\ turn = "snapshot"
    /\ \E r \in Replies("query_snapshot_tasks", SnapshotTasks, MaxTasks) :
        LET ran == Collect(build, r.outcome)
        IN  /\ reply' = r
            /\ collected' = ran
            /\ snapshot_task_status' =
                    IF ran.processed = 1
                    THEN snapshot(build, r.data, snapshot_task_status)
                    ELSE snapshot_task_status
    /\ turn' = "alerts"
    /\ UNCHANGED <<cloud_sync_status, cloud_sync_progress, alert_count,
                   alert_info, rounds>>
    /\ UNCHANGED <<vars, cycleVars, reportVars>>

\* the alert collection; the cycle's other collections follow, and the next
\* tick
AlertCollect ==
    /\ turn = "alerts"
    /\ \E r \in Replies("query_alerts", Alerts, MaxAlerts) :
        LET ran == Collect(build, r.outcome)
            set == alert(build, r.data,
                         [count |-> alert_count, info |-> alert_info])
        IN  /\ reply' = r
            /\ collected' = ran
            /\ alert_count' = IF ran.processed = 1 THEN set.count ELSE alert_count
            /\ alert_info' = IF ran.processed = 1 THEN set.info ELSE alert_info
    /\ turn' = "cloud_sync"
    /\ rounds' = rounds + 1
    /\ UNCHANGED <<cloud_sync_status, cloud_sync_progress,
                   snapshot_task_status>>
    /\ UNCHANGED <<vars, cycleVars, reportVars>>

InitCollectors ==
    /\ ConnectionAtRest
    /\ config = DefaultConfig
    /\ LoopAtRest
    /\ build \in {"server", "collector"}
    /\ ReportingIdle
    /\ GaugesAtRest

NextCollectors ==
    \/ CloudSyncCollect
    \/ SnapshotCollect
    \/ AlertCollect

SpecCollectors ==
    InitCollectors
        /\ [][NextCollectors]_<<vars, cycleVars, reportVars, gaugeVars>>

----------------------------------------------------------------------------
(* Vocabulary of the properties *)

\* the number a decimal string denotes
RECURSIVE IdValue(_)
IdValue(s) ==
    IF Len(s) = 0 THEN 0
    ELSE 10 * IdValue(SubSeq(s, 1, Len(s) - 1)) + s[Len(s)]

\* a caller has sent a frame and has not yet read the answer to it
InFlight(p) == pc[p] \in {"hs_read", "auth_read", "eq_read"}

\* the physical connections still held, in the slot or by a caller
Live == {c.cid : c \in connection \cup UNION {conn[p] : p \in Procs}}

\* the frames added to the wire by a step
NewFrames == {wire'[i] : i \in (Len(wire) + 1)..Len(wire')}

\* the kinds of the frames sent on one physical connection, in order
RECURSIVE KindsOn(_, _)
KindsOn(w, c) ==
    IF w = <<>> THEN <<>>
    ELSE IF Head(w).conn = c THEN <<Head(w).kind>> \o KindsOn(Tail(w), c)
    ELSE KindsOn(Tail(w), c)

\* connect, then auth, then method calls only
WellOrdered(ks) ==
    \A i \in 1..Len(ks) :
        ks[i] = (IF i = 1 THEN "connect" ELSE IF i = 2 THEN "auth" ELSE "method")

\* the step in which caller p's execute_query returns
Returns(p) == pc[p] \notin {"idle", "cl_close"} /\ pc'[p] = "idle"

\* the frame is a well-formed response carrying an error
IsErrorFrame(f) == f.type = "text" /\ f.valid /\ f.body.error # None

\* the frame is a well-formed response carrying a result and no error
IsResultFrame(f) ==
    f.type = "text" /\ f.valid /\ f.body.error = None /\ f.body.result # None

\* the reason of an error frame has the sentinel in it
HasSentinel(f) ==
    /\ IsErrorFrame(f)
    /\ Unwrap(f.body.error).reason # None
    /\ LET r == Unwrap(Unwrap(f.body.error).reason)
       IN \E i \in 1..(Len(r) - 1) : r[i] = "ENOT" /\ r[i + 1] = "AUTHENTICATED"

\* a frame that is no response at all
IsProtocolViolation(f) ==
    \/ f.type = "binary"
    \/ f.type = "text" /\ ~f.valid
    \/ f.type = "text" /\ f.valid /\ f.body.error = None /\ f.body.result = None

----------------------------------------------------------------------------
(* C1: at most one request is in flight at any instant, and while a call   *)
(* has sent its request and not yet read the response, no other frame is   *)
(* sent on any connection.                                                 *)
C1_SingleFlight ==
    /\ [](Cardinality({p \in Procs : InFlight(p)}) <= 1)
    /\ [][\A a \in Procs :
            (pc[a] = "eq_read" /\ pc'[a] = "eq_read") => wire' = wire]_vars

\* call B has been issued while A's response is outstanding
C1_Witness ==
    \E a, b \in Procs :
        a # b /\ pc[a] = "eq_read" /\ pc[b] \in {"ec_lock", "eq_lock"}

(* C2: the request ids of the frames sent are pairwise distinct and        *)
(* strictly increasing in the order of sending, across reconnects and      *)
(* across method calls and authentication calls.                           *)
C2_IdsStrictlyIncreasing ==
    \A i, j \in 1..Len(wire) :
        (i < j /\ wire[i].kind # "connect" /\ wire[j].kind # "connect")
        => /\ wire[i].id # wire[j].id
           /\ IdValue(wire[i].id) < IdValue(wire[j].id)

\* a method call on one connection, then an authentication on a later one
C2_Witness ==
    \E i, j \in 1..Len(wire) :
        /\ i < j
        /\ wire[i].kind = "method"
        /\ wire[j].kind = "auth"
        /\ wire[i].conn # wire[j].conn

(* C3: when a call returns an authentication error the slot is empty and   *)
(* the failed connection is held nowhere; a caller that then enters        *)
(* ensure_connected opens a connection first; frames are only ever sent on *)
(* a connection still held, and every method call on a connection follows  *)
(* that connection's own handshake and authentication frames.              *)
C3_FreshAfterAuthError ==
    /\ [][\A p \in Procs :
            /\ (Returns(p) /\ result'[p].kind = "Auth")
               => /\ connection' = None
                  /\ Unwrap(connection).cid \notin Live'
            /\ (pc[p] = "ec_lock" /\ pc'[p] # "ec_lock" /\ connection = None)
               => /\ pc'[p] = "ec_connect"
                  /\ wire' = wire
            /\ \A f \in NewFrames : f.conn \in Live /\ f.conn \in Live']_vars
    /\ [](\A c \in 1..opened : WellOrdered(KindsOn(wire, c)))

\* a caller got an authentication error on the first connection and a
\* method call has since gone out on the second
C3_Witness ==
    \E p, q \in Procs :
        /\ pc[p] = "idle"
        /\ result[p].kind = "Auth"
        /\ pc[q] = "eq_read"
        /\ Unwrap(conn[q]).cid = 2
        /\ KindsOn(wire, 1) = <<"connect", "auth">>
        /\ KindsOn(wire, 2) = <<"connect", "auth", "method">>

(* C4: when the response carries an error whose reason contains the        *)
(* session-expiry sentinel, the slot is empty when execute_query returns   *)
(* and the call returns a remote-API error with that reason.               *)
C4_SentinelInvalidates ==
    [][\A p \in Procs :
        (Returns(p) /\ pc[p] = "eq_read" /\ io'[p] = "read_ok"
            /\ HasSentinel(msg'[p]))
        => /\ connection' = None
           /\ Unwrap(conn[p]).cid \notin Live'
           /\ result'[p] = Err("TrueNasApi",
                               Unwrap(Unwrap(msg'[p].body.error).reason))]_vars

\* a call has returned on an error whose reason has the sentinel inside it
C4_Witness ==
    \E p \in Procs :
        /\ pc[p] = "idle"
        /\ io[p] = "read_ok"
        /\ HasSentinel(msg[p])
        /\ Unwrap(Unwrap(msg[p].body.error).reason) # Sentinel
        /\ result[p].kind = "TrueNasApi"
        /\ connection = None

(* C5: a connection is marked authenticated only in a step that has read   *)
(* an authentication response carrying the boolean result true.            *)
C5_ReadyOnlyAfterTrue ==
    [][\A p \in Procs :
        (pc[p] = "auth_read" /\ connection' # None
            /\ Unwrap(connection').authenticated)
        => /\ io'[p] = "read_ok"
           /\ IsResultFrame(msg'[p])
           /\ msg'[p].body.result = Some("true")]_vars

(* C6: on every physical connection the frames sent are one connect frame, *)
(* then one authentication call, then method calls only, and a method call *)
(* is sent only once both the connect and the authentication frames have   *)
(* been answered.                                                          *)
C6_FrameOrder ==
    \A c \in 1..opened :
        /\ WellOrdered(KindsOn(wire, c))
        /\ Len(KindsOn(wire, c)) >= 3 => inbound[c] >= 2

\* two method calls have gone out on one connection
C6_Witness ==
    \E c \in 1..opened :
        KindsOn(wire, c) = <<"connect", "auth", "method", "method">>

(* C7: a call that returns on a failed write, a read error or the end of   *)
(* the stream leaves the slot empty and the connection held nowhere, and   *)
(* returns an error: the connection-closed error at the end of the stream. *)
C7_TransportFailureInvalidates ==
    [][\A p \in Procs :
        (Returns(p) /\ io'[p] \in {"write_err", "read_err", "read_eos"})
        => /\ connection' = None
           /\ \A c \in connection \cup conn[p] : c.cid \notin Live'
           /\ result'[p].kind \in {"WebSocket", "TrueNasApi"}
           /\ io'[p] \in {"write_err", "read_err"}
              => result'[p] = Err("WebSocket", <<>>)
           /\ io'[p] = "read_eos" => result'[p] = ConnectionClosed]_vars

\* a call has returned at the end of the stream
C7_Witness ==
    \E p \in Procs :
        /\ pc[p] = "idle"
        /\ io[p] = "read_eos"
        /\ result[p] = ConnectionClosed
        /\ connection = None
        /\ Live = {}
        /\ opened = 1

(* C8: when a call returns on a remote error without the sentinel, or on a *)
(* result that does not decode, the slot holds the connection the call     *)
(* used, still authenticated; and a request is always sent on the          *)
(* connection found in the slot, with no connection opened in that step.   *)
C8_BenignErrorKeepsConnection ==
    [][\A p \in Procs :
        /\ (Returns(p) /\ pc[p] = "eq_read" /\ io'[p] = "read_ok"
            /\ \/ IsErrorFrame(msg'[p]) /\ ~HasSentinel(msg'[p])
               \/ IsResultFrame(msg'[p])
                  /\ Unwrap(msg'[p].body.result) # "rows")
           => /\ connection' = conn[p]
              /\ Unwrap(connection').authenticated
              /\ result'[p].kind =
                    (IF IsErrorFrame(msg'[p]) THEN "TrueNasApi" ELSE "Json")
        /\ (pc[p] = "eq_lock" /\ pc'[p] = "eq_read")
           => /\ conn'[p] = connection
              /\ opened' = opened
              /\ NewFrames =
                    {Frame(Unwrap(connection), "method", to_string(request_id))}]_vars

\* after a remote error on the first connection, the next request has gone
\* out on that same connection and no other was opened
C8_Witness ==
    \E p, q \in Procs :
        /\ pc[p] = "idle"
        /\ IsErrorFrame(msg[p])
        /\ result[p].kind = "TrueNasApi"
        /\ pc[q] = "eq_read"
        /\ opened = 1
        /\ KindsOn(wire, 1) = <<"connect", "auth", "method", "method">>

(* C9 as claimed: a call that returns on a protocol violation (a non-text  *)
(* frame, a text frame that does not parse, a response with neither result *)
(* nor error) returns an error and leaves the slot empty.                  *)
C9_ProtocolViolationInvalidates ==
    [][\A p \in Procs :
        (Returns(p) /\ pc[p] = "eq_read" /\ io'[p] = "read_ok"
            /\ IsProtocolViolation(msg'[p]))
        => /\ result'[p].kind \in {"TrueNasApi", "Json"}
           /\ connection' = None]_vars

(* C9 as amended: a call that returns on a protocol violation returns an   *)
(* error, and the connection it used has been checked back in: the slot    *)
(* holds it when the call returns.                                         *)
C9_ProtocolViolationKeepsConnection ==
    [][\A p \in Procs :
        (Returns(p) /\ pc[p] = "eq_read" /\ io'[p] = "read_ok"
            /\ IsProtocolViolation(msg'[p]))
        => /\ result'[p] = (IF msg'[p].type = "text" /\ ~msg'[p].valid
                            THEN Err("Json", <<>>) ELSE NoValidResponse)
           /\ connection' = conn[p]
           /\ connection' # None]_vars

\* a call has returned on a binary frame and the slot holds the connection
C9_Witness ==
    \E p \in Procs :
        /\ pc[p] = "idle"
        /\ msg[p].type = "binary"
        /\ result[p] = NoValidResponse
        /\ connection # None

(* C10: ensure_connected with an authenticated connection in the slot      *)
(* returns Ok and changes nothing: no connection opened, no frame sent or  *)
(* read, no request id consumed, the slot and the lock as they were.       *)
C10_EnsureConnectedIdempotent ==
    [][\A p \in Procs :
        (pc[p] = "ec_lock" /\ pc'[p] # "ec_lock"
            /\ connection # None /\ Unwrap(connection).authenticated)
        => /\ pc'[p] = "eq_lock"
           /\ UNCHANGED <<connection, lockHolder, request_id, opened, wire,
                          inbound, conn, result>>]_vars

\* two callers have come through ensure_connected one after the other on
\* the one connection that was opened
C10_Witness ==
    /\ \A p \in Procs : pc[p] = "eq_lock"
    /\ connection # None
    /\ Unwrap(connection).authenticated
    /\ opened = 1
    /\ request_id = 1
    /\ Len(wire) = 2

(* C11: when opening the physical connection fails, the call returns the   *)
(* error connect_websocket produced for that failure, the slot stays       *)
(* empty, no frame is sent, and the call has drawn no request id: all it   *)
(* has done is the one attempt to open.                                    *)
C11_FailedOpenLeavesNothing ==
    [][\A p \in Procs :
        (pc[p] = "ec_connect" /\ Returns(p))
        => /\ io'[p] \in OpenFailures
           /\ result'[p].kind =
                 (IF io'[p] = "open_ws_err" THEN "WebSocket" ELSE "Config")
           /\ connection = None /\ connection' = None
           /\ UNCHANGED <<wire, request_id, opened, inbound>>
           /\ attempts'[p] = [NoAttempts EXCEPT !.opens = 1]]_vars

\* a call has returned the plain connect's error with the slot empty
C11_Witness ==
    \E p \in Procs :
        /\ pc[p] = "idle"
        /\ io[p] = "open_ws_err"
        /\ result[p] = Err("WebSocket", <<>>)
        /\ connection = None
        /\ attempts[p] = [NoAttempts EXCEPT !.opens = 1]

(* C12: one execute_query() call opens at most one connection, sends at    *)
(* most one connect frame, at most one auth request and at most one        *)
(* method request, whatever fails on the way.                              *)
C12_NoRetry ==
    \A p \in Procs :
        /\ attempts[p].opens <= 1
        /\ attempts[p].handshakes <= 1
        /\ attempts[p].auths <= 1
        /\ attempts[p].methods <= 1
        /\ attempts[p].ids <= 2

\* a call that opened, shook hands, authenticated and sent its request has
\* returned the end of the stream as an error, having done each once
C12_Witness ==
    \E p \in Procs :
        /\ pc[p] = "idle"
        /\ result[p] = ConnectionClosed
        /\ attempts[p] = [opens |-> 1, handshakes |-> 1, auths |-> 1,
                          methods |-> 1, ids |-> 2]

----------------------------------------------------------------------------
(* The collection loop: vocabulary *)

\* collect_metrics returns in this step
CycleEnds == position = AtCheck /\ position' = 0

\* the queries a cycle is to issue, in order, given the flags and whether
\* the graph descriptors arrived
RECURSIVE Due(_, _, _)
Due(qs, cfg, graphs_ok) ==
    IF qs = <<>> THEN <<>>
    ELSE LET q == Head(qs)
             due == CASE q = "query_pools" -> cfg.collect_pool_metrics
                      [] q = "query_system_info" -> cfg.collect_system_metrics
                      [] q = "query_reporting_data" -> graphs_ok
                      [] OTHER -> TRUE
         IN  (IF due THEN <<q>> ELSE <<>>) \o Due(Tail(qs), cfg, graphs_ok)

(* C13: after every collection cycle the truenas_up gauge is 1 if at least *)
(* one query of the cycle succeeded and 0 otherwise.                       *)
C13_UpIffAnySucceeded ==
    [][CycleEnds => (up' = IF succeeded # {} THEN 1 ELSE 0)]_cycleVars

(* C14: a cycle issues every enabled query, in the fixed order, whatever   *)
(* failed before it, and when the cycle is over, failed or not, the loop   *)
(* is back at its ticker.                                                  *)
C14_FailuresDoNotAbort ==
    /\ position \in 0..AtCheck
    /\ position = AtCheck
        => attempted = Due(Queries, config,
                           "query_reporting_graphs" \in succeeded)
    /\ (cycles > 0 /\ cycles < MaxCycles /\ position = 0) => ENABLED Tick

\* the second cycle has issued all its queries after a first cycle in which
\* every query failed, its own first query having failed too
C14_Witness ==
    /\ cycles = 1
    /\ completed = Some([ok |-> FALSE, any |-> FALSE])
    /\ position = AtCheck
    /\ Len(attempted) = Len(Queries) - 1
    /\ "query_pools" \notin succeeded
    /\ "query_services" \in succeeded

----------------------------------------------------------------------------
(* The reporting collection: vocabulary *)

\* the batch list has just been built from the discovered descriptors
BatchBuilt == stage = "build" /\ stage' # "build"

\* the loop has just decoded a sample
Decoded == stage = "decode" /\ Len(results') = Len(results) + 1

\* the sample just decoded, its last row, and the settings it made
Taken == results'[Len(results')]

LastRow(s) == s.data[Len(s.data)]

NewSettings == SubSeq(emitted', Len(emitted) + 1, Len(emitted'))

\* the label a per-device sample's settings carry
LabelOf(s) == IF s.identifier = None THEN "unknown" ELSE Unwrap(s.identifier)

\* the cell of the row under the column of that name, if the legend has it
\* and the row reaches it; null otherwise
Named(s, name) ==
    IF \E i \in 1..Len(s.legend) : s.legend[i] = name
    THEN LET i == CHOOSE i \in 1..Len(s.legend) : s.legend[i] = name
         IN  IF i <= Len(LastRow(s)) THEN LastRow(s)[i] ELSE {}
    ELSE {}

\* the setting a cell gives rise to: none for a null cell
SettingFor(metric, s, cell) ==
    IF cell = {} THEN <<>>
    ELSE <<[metric |-> metric, label |-> LabelOf(s), value |-> Unwrap(cell)]>>

\* the specs the per-device descriptors call for, in discovery order
RECURSIVE SpecsFor(_)
SpecsFor(gs) ==
    IF gs = <<>> THEN <<>>
    ELSE LET g == Head(gs)
             ids == IF g.identifiers = {} THEN <<>> ELSE Unwrap(g.identifiers)
         IN  (IF g.name \in {"disktemp", "disk", "interface"}
              THEN [i \in 1..Len(ids) |->
                        [name |-> g.name, identifier |-> {ids[i]}]]
              ELSE <<>>)
             \o SpecsFor(Tail(gs))

\* the columns a family's decoding looks for by name
ColumnsOf(name) ==
    CASE name = "disktemp" -> {"temperature_value", "value"}
      [] name = "disk" -> {"reads", "writes"}
      [] name = "interface" -> {"received", "sent"}
      [] OTHER -> {}

\* a sample with nothing to decode: no rows, a family that is not known, a
\* per-device legend with none of the family's columns (and, for disktemp,
\* no second column to fall back on), or a last row without any value
CarriesNothing(s) ==
    \/ s.data = <<>>
    \/ s.name \notin {"cpu", "cputemp", "memory", "disktemp", "disk", "interface"}
    \/ /\ s.name \in {"disk", "interface"}
       /\ \A i \in 1..Len(s.legend) : s.legend[i] \notin ColumnsOf(s.name)
    \/ /\ s.name = "disktemp"
       /\ \A i \in 1..Len(s.legend) : s.legend[i] \notin ColumnsOf(s.name)
       /\ Len(s.legend) <= 1
    \/ \A i \in 1..Len(LastRow(s)) : LastRow(s)[i] = {}

(* C16: when discovery returns an empty list the batch list is empty and   *)
(* the batch call is skipped: no request is sent and the collection ends.  *)
C16_EmptyDiscoverySkipsBatch ==
    [][(BatchBuilt /\ graphs = <<>>)
        => /\ queries' = <<>>
           /\ requested' = requested
           /\ stage' = "done"]_reportVars

(* C16, amended: when discovery returns an empty list the batch list holds *)
(* the fixed scalar specs and nothing else, and the batch call is issued   *)
(* with them; no error is raised.                                          *)
C16_EmptyDiscoveryQueriesScalars ==
    [][(BatchBuilt /\ graphs = <<>>)
        => /\ queries' # <<>>
           /\ \A i \in 1..Len(queries') :
                /\ queries'[i].name \in {"cpu", "cputemp", "memory"}
                /\ queries'[i].identifier = {}
           /\ requested' = requested + 1
           /\ stage' = "data"
           /\ status' = "none"]_reportVars

\* the batch call is out after a discovery that returned no descriptor
C16_Witness ==
    /\ stage = "data"
    /\ graphs = <<>>
    /\ requested = 1
    /\ Len(queries) = 2

(* C17: the batch list is the fixed scalar specs (cpu, cputemp, memory,    *)
(* no identifier) followed by one spec per identifier of each per-device   *)
(* descriptor that has identifiers, in discovery order.                    *)
C17_BatchList ==
    stage = "data"
        => queries = << [name |-> "cpu", identifier |-> {}],
                        [name |-> "cputemp", identifier |-> {}],
                        [name |-> "memory", identifier |-> {}] >>
                     \o SpecsFor(graphs)

(* C18: a sample with nothing to decode makes no setting and leaves the    *)
(* settings made for the samples before it as they were, wherever it       *)
(* stands in the list; what a sample sets comes from its last row alone    *)
(* and does not depend on the samples decoded before it.                   *)
C18_BestEffortPerSample ==
    [][Decoded
        => /\ SubSeq(emitted', 1, Len(emitted)) = emitted
           /\ CarriesNothing(Taken) => NewSettings = <<>>
           /\ \A k \in 1..Len(NewSettings) :
                \/ NewSettings[k].metric = "system_memory_used_bytes"
                \/ \E i \in 1..Len(LastRow(Taken)) :
                        LastRow(Taken)[i] = {NewSettings[k].value}
           /\ NewSettings = Decode(Taken, build, system_memory_total_bytes)
      ]_reportVars

\* a list whose first sample has no rows and whose second sample has an
\* older row before its last one has been decoded, the second sample alone
\* having set a gauge
C18_Witness ==
    /\ stage = "done"
    /\ Len(results) = 2
    /\ results[1].data = <<>>
    /\ Len(results[2].data) = 2
    /\ results[2].name = "cpu"
    /\ emitted = <<[metric |-> "system_cpu_usage_percent", label |-> "idle",
                    value |-> 2]>>

(* C19: a disktemp sample's value is taken from the column named           *)
(* temperature_value if the legend has one, else from the column named     *)
(* value, else from the last column when the legend has more than one      *)
(* column; otherwise nothing is emitted.                                   *)
C19_TemperatureColumn ==
    [][(Decoded /\ Taken.name = "disktemp" /\ Taken.data # <<>>)
        => LET s == Taken
               has(name) == \E i \in 1..Len(s.legend) : s.legend[i] = name
               cell == IF has("temperature_value")
                       THEN Named(s, "temperature_value")
                       ELSE IF has("value") THEN Named(s, "value")
                       ELSE IF Len(s.legend) > 1 /\ LastRow(s) # <<>>
                       THEN LastRow(s)[Len(LastRow(s))]
                       ELSE {}
           IN  NewSettings = SettingFor("disk_temperature_celsius", s, cell)
      ]_reportVars

(* C20: a disk sample's reads and writes columns, and an interface         *)
(* sample's received and sent columns, are found by name wherever they     *)
(* stand; each one that is there with a value in the last row sets its own *)
(* gauge, labelled by the sample's identifier, whether or not the other    *)
(* one is there.                                                           *)
C20_ColumnsIndependent ==
    [][(Decoded /\ Taken.name \in {"disk", "interface"} /\ Taken.data # <<>>)
        => LET s == Taken
           IN  NewSettings =
                 IF s.name = "disk"
                 THEN SettingFor("disk_read_bytes_per_second", s,
                                 Named(s, "reads"))
                      \o SettingFor("disk_write_bytes_per_second", s,
                                    Named(s, "writes"))
                 ELSE SettingFor("network_receive_bytes_per_second", s,
                                 Named(s, "received"))
                      \o SettingFor("network_transmit_bytes_per_second", s,
                                    Named(s, "sent"))
      ]_reportVars

\* a disk sample whose legend has writes but not reads has set the write
\* gauge of its device
C20_Witness ==
    /\ Len(results) = 1
    /\ results[1].name = "disk"
    /\ results[1].legend = <<"writes", "time">>
    /\ emitted = <<[metric |-> "disk_write_bytes_per_second", label |-> "sda",
                    value |-> 1]>>

----------------------------------------------------------------------------
(* The connection: correlation, races, the lock *)

\* the frames sent so far on connection c
SentOn(w, c) == Len(KindsOn(w, c))

(* C26: responses are correlated by position. Every read that yields a    *)
(* frame consumes exactly one frame of the connection it reads from; the   *)
(* caller that sent a request gets what the next frame carries, whatever   *)
(* id the frame bears; and when a call returns, as many frames have been   *)
(* read on the connection in the slot as have been sent on it.             *)
C26_PositionalCorrelation ==
    [][\A p \in Procs :
        /\ (pc[p] \in {"hs_read", "auth_read"} /\ pc'[p] # pc[p]
                /\ io'[p] = "read_ok")
            => inbound' = [inbound EXCEPT ![Unwrap(connection).cid] = @ + 1]
        /\ (pc[p] = "eq_read" /\ Returns(p) /\ io'[p] = "read_ok")
            => /\ inbound' = [inbound EXCEPT ![Unwrap(conn[p]).cid] = @ + 1]
               /\ IsResultFrame(msg'[p])
                    => result'[p] =
                         (IF Unwrap(msg'[p].body.result) = "rows"
                          THEN Ok ELSE Err("Json", <<>>))
               /\ IsErrorFrame(msg'[p]) => result'[p].kind = "TrueNasApi"
        /\ Returns(p)
            => \A c \in connection' : inbound'[c.cid] = SentOn(wire', c.cid)
      ]_vars

\* a call has returned Ok on a frame bearing the id of the authentication
\* request, its own request having gone out under another id, and the
\* connection is back in the slot with three frames sent and three read
C26_Witness ==
    \E p \in Procs :
        /\ pc[p] = "idle"
        /\ result[p] = Ok
        /\ msg[p].id = StaleId
        /\ wire # <<>>
        /\ wire[Len(wire)].kind = "method"
        /\ wire[Len(wire)].id # StaleId
        /\ connection # None
        /\ inbound[Unwrap(connection).cid] = 3
        /\ SentOn(wire, Unwrap(connection).cid) = 3


\* caller p is past ensure_connected()'s Ok and has not yet taken the lock
\* to check the connection out
Ensured(p) == pc[p] = "eq_lock"

(* C27: a call whose ensure_connected() returned Ok sends its request on  *)
(* an authenticated connection: its check-out never finds the slot empty  *)
(* and it never returns the "No active connection" error, whatever other   *)
(* calls or close() did in between.                                        *)
C27_EnsuredCallFindsConnection ==
    [][\A p \in Procs :
        (Ensured(p) /\ pc'[p] # pc[p])
            => /\ connection # None
               /\ Unwrap(connection).authenticated
               /\ result'[p] # NoActiveConnection
      ]_vars

\* a caller reads a response, or closes a connection
Awaiting(p) == pc[p] \in {"hs_read", "auth_read", "eq_read", "cl_close"}

(* C28: whenever the connection lock is free, the slot is empty or holds a *)
(* connection whose authenticated flag is true, no caller has a connection *)
(* checked out and no caller is waiting for a frame: a connection that is  *)
(* open but not authenticated, or that a call is using, is out of reach of *)
(* every other caller.                                                     *)
C28_FreeLockSlotEmptyOrAuthenticated ==
    LockFree =>
        /\ connection = None \/ Unwrap(connection).authenticated
        /\ \A p \in Procs : conn[p] = None /\ ~Awaiting(p)

\* the lock is free, the slot holds an authenticated connection, and an
\* earlier authentication has failed on a connection that is gone
C28_Witness ==
    /\ LockFree
    /\ connection # None
    /\ Unwrap(connection).authenticated
    /\ Unwrap(connection).cid = 2
    /\ \E p \in Procs : pc[p] = "idle" /\ result[p].kind = "Auth"
    /\ \E p \in Procs : Ensured(p)


\* caller p waits for the connection lock
Blocked(p) == pc[p] \in {"ec_lock", "eq_lock"} /\ ~LockFree

\* the lock is held only by a call or a close() that is in progress and is
\* not itself waiting for the lock
HeldByRunningCall ==
    \A p \in Procs : lockHolder = p => pc[p] \notin {"idle", "ec_lock", "eq_lock"}

\* no call and no close() is in progress
Quiescent == \A p \in Procs : pc[p] = "idle"

(* C29: the lock is released on every exit path and never requested by   *)
(* the call that holds it: it is held only by a call in progress that is  *)
(* not waiting for it; and, the remote answering, failing or closing      *)
(* every exchange, every call that was issued returns and every caller    *)
(* blocked on the lock gets past it: the calls issued being finitely      *)
(* many, from some point on none is in progress.                          *)
C29_LockReleasedCallsReturn ==
    /\ []HeldByRunningCall
    /\ <>[]Quiescent

\* a caller waits for the lock while another call, having lost its
\* connection once already, holds the lock and waits for a response
C29_Witness ==
    \E p, q \in Procs :
        /\ Blocked(p)
        /\ lockHolder = q
        /\ pc[q] = "eq_read"
        /\ opened = 2


----------------------------------------------------------------------------
(* The collection loop: one cycle, one query at a time *)

\* the loop leaves ticker.tick() and a cycle starts
CycleStarts == position = 0 /\ position' # 0

(* C30: cycles do not overlap and queries are issued one at a time. A    *)
(* cycle starts only when no query of the collector is outstanding and,   *)
(* after the first, only when the previous collect_metrics() has returned *)
(* and truenas_up has been set from its outcome; a query is called only   *)
(* when none is outstanding, so at most one is at any instant; and        *)
(* truenas_up changes only where a cycle ends.                            *)
C30_CyclesDoNotOverlap ==
    [][ /\ Cardinality(outstanding') <= 1
        /\ outstanding' \ outstanding # {} => outstanding = {}
        /\ CycleStarts =>
              /\ outstanding = {}
              /\ cycles > 0 =>
                    /\ completed # None
                    /\ up = (IF Unwrap(completed).ok THEN 1 ELSE 0)
        /\ up' # up => CycleEnds /\ outstanding = {}
      ]_cycleVars

\* the second cycle has a query outstanding after the first cycle has
\* raised truenas_up
C30_Witness ==
    /\ cycles = 1
    /\ up = 1
    /\ outstanding = {"query_datasets"}
    /\ attempted # <<>>


----------------------------------------------------------------------------
(* The reporting collection: total and used memory *)

\* the loop has just decoded a memory sample that has rows
MemoryDecoded == Decoded /\ Taken.name = "memory" /\ Taken.data # <<>>

\* this cycle's query_system_info returned a total
TotalObtained == system_info.status = "Ok" /\ system_info.physmem # None

\* the setting of the used-memory gauge to v
Used(v) == [metric |-> "system_memory_used_bytes", label |-> "", value |-> v]

(* C21: when this cycle's system information has set the total T and the *)
(* last row of the memory sample has a value A under "available",         *)
(* decoding the sample sets the used-memory gauge to T - A.               *)
C21_UsedMemory ==
    [][(MemoryDecoded /\ TotalObtained /\ Named(Taken, "available") # {})
        => \E k \in 1..Len(NewSettings) :
              NewSettings[k] = Used(Unwrap(system_info.physmem)
                                        - Unwrap(Named(Taken, "available")))
      ]_reportVars

(* C22 as claimed: whenever a result of the batch is decoded, this        *)
(* cycle's system information call has completed and the total holds the  *)
(* physmem it returned.                                                   *)
C22_TotalFromSameCycle ==
    [][Decoded
        => /\ TotalObtained
           /\ system_memory_total_bytes = Unwrap(system_info.physmem)
      ]_reportVars

(* C22, amended: the system information block is behind when a result of  *)
(* the batch is decoded: the call, if the block made it, has returned,    *)
(* and if it returned a physmem the total holds that value throughout the *)
(* decoding; nothing else sets the total, so a cycle whose call is        *)
(* switched off, fails or carries no physmem decodes with the total it    *)
(* started with; a used-memory setting is the total then held less the    *)
(* available value.                                                       *)
C22_SystemInfoBeforeDecoding ==
    [][ /\ Decoded
            => /\ system_info.status \in {"skipped", "Ok", "Err"}
               /\ system_info' = system_info
               /\ system_memory_total_bytes' = system_memory_total_bytes
               /\ TotalObtained
                    => system_memory_total_bytes = Unwrap(system_info.physmem)
               /\ \A k \in 1..Len(NewSettings) :
                    NewSettings[k].metric = "system_memory_used_bytes"
                        => NewSettings[k] =
                              Used(system_memory_total_bytes
                                    - Unwrap(Named(Taken, "available")))
        /\ system_memory_total_bytes' # system_memory_total_bytes
            => /\ stage = "info"
               /\ system_info'.status = "Ok"
               /\ system_info'.physmem = Some(system_memory_total_bytes')
      ]_reportVars

\* a memory sample has been decoded in a cycle whose system information
\* replaced the total of an earlier cycle
C22_Witness ==
    /\ stage = "decode"
    /\ system_info = SystemInfo("Ok", Some(16))
    /\ system_memory_total_bytes = 16
    /\ Len(results) = 1
    /\ results[1].name = "memory"
    /\ emitted # <<>>


----------------------------------------------------------------------------
(* The data protection and alert collections: claims *)

\* the collection of that name has just run
Ran(name) == turn = name /\ turn' # name

\* the alerts of a reply with that level and active status
Matching(data, k) ==
    {i \in 1..Len(data) :
        data[i].level = k[1] /\ (k[2] = "true") = ~data[i].dismissed}

\* the (task, state) label sets a cloud sync reply carries
CloudSyncLabels(data) ==
    {<<data[i].description, Unwrap(data[i].job).state>> :
        i \in {j \in 1..Len(data) : data[j].job # None}}

\* the (dataset, state) label sets a snapshot task reply carries
SnapshotLabels(data) ==
    {<<data[i].dataset, Unwrap(data[i].state)>> :
        i \in {j \in 1..Len(data) : data[j].state # None}}

\* the gauges the three collections write
Gauges ==
    <<cloud_sync_status, cloud_sync_progress, snapshot_task_status,
      alert_count, alert_info>>

(* C23: collect_with_handler never returns Err. On an Ok of the query it *)
(* returns Ok(Success) and has run the callback once on the data, empty   *)
(* or not: the alert callback has left each of the eight counts at the    *)
(* number of such alerts in the data and alert_info with the children of  *)
(* the data's alerts. On an Err it returns Ok(Failed), the callback has   *)
(* not run and no gauge has changed.                                      *)
C23_HandlerNeverFatal ==
    [][(Ran("alerts") /\ build = "collector")
        => /\ collected'.result = "Ok"
           /\ reply'.outcome = "Ok"
                => /\ collected'.status = "Success"
                   /\ collected'.processed = 1
                   /\ \A k \in Combinations :
                        /\ k \in DOMAIN alert_count'
                        /\ alert_count'[k]
                              = Cardinality(Matching(reply'.data, k))
                   /\ DOMAIN alert_info'
                        = {<<a.level, a.formatted, a.uuid,
                             IF a.dismissed THEN "false" ELSE "true">> :
                                a \in {reply'.data[i] :
                                          i \in 1..Len(reply'.data)}}
           /\ reply'.outcome = "Err"
                => /\ collected'.status = "Failed"
                   /\ collected'.processed = 0
                   /\ Gauges' = Gauges
      ]_gaugeVars

\* in the second cycle the alert query has failed and the handler has
\* returned Ok(Failed), the counts of the first cycle still standing
C23_Witness ==
    /\ build = "collector"
    /\ rounds = 2
    /\ reply = Reply("query_alerts", "Err", <<>>)
    /\ collected = Collection("Ok", "Failed", 0)
    /\ <<"CRITICAL", "true">> \in DOMAIN alert_count
    /\ alert_count[<<"CRITICAL", "true">>] = 2

(* C24: after a cloud sync (snapshot task) collection whose query         *)
(* succeeded the status gauge has exactly the (task, state) label sets of *)
(* that reply, label sets of earlier cycles being gone; after one whose   *)
(* query failed the gauge is as it was.                                   *)
C24_StatusFollowsLatestReply ==
    [][ /\ Ran("cloud_sync")
            => IF reply'.outcome = "Ok"
               THEN DOMAIN cloud_sync_status' = CloudSyncLabels(reply'.data)
               ELSE cloud_sync_status' = cloud_sync_status
        /\ Ran("snapshot")
            => IF reply'.outcome = "Ok"
               THEN DOMAIN snapshot_task_status' = SnapshotLabels(reply'.data)
               ELSE snapshot_task_status' = snapshot_task_status
      ]_gaugeVars

(* C25: after every alert collection whose query succeeded, the count of  *)
(* each of the eight (level, active) combinations is the number of alerts *)
(* of the reply with that level and active status, 0 where there is none. *)
C25_AlertCountsFollowLatestReply ==
    [][(Ran("alerts") /\ reply'.outcome = "Ok")
        => \A k \in Combinations :
              /\ k \in DOMAIN alert_count'
              /\ alert_count'[k] = Cardinality(Matching(reply'.data, k))
      ]_gaugeVars

====
